---- MODULE Spec2Model ----
(***************************************************************************)
(* State-machine model of the wearable telemetry simulator:                *)
(*   backend/simulator.py  (initialize_simulation_state, the two pure      *)
(*                          scoring functions, populate_historical_data,   *)
(*                          simulate_data)                                 *)
(*   backend/app.py        (init_db, send_staff_update, the scheduler)     *)
(*   backend/models.py     (column defaults of Staff and WearableData)     *)
(*                                                                         *)
(* Fixed-point units.  Heart rate and HRV are integers as in the code.     *)
(* Steadiness is held in thousandths before rounding and in hundredths     *)
(* once round(x, 2) has been applied.  Sleep hours and the nightly sleep   *)
(* index are held in hundredths; a stored sleep index and the wellness     *)
(* index (MWI) are in tenths, the result of round(x, 1).                   *)
(* Time is in seconds; hour, minute and day-of-month are computed from it. *)
(***************************************************************************)
EXTENDS Integers, Sequences, FiniteSets, TLC

VARIABLES
    pc,                      \* position of the process: init_db, the backfill loop, its commits, the scheduler
    roster,                  \* ids of the Staff rows in the database
    staff,                   \* the Staff objects of the session (subject snapshots)
    db_staff,                \* the Staff rows as last committed
    staff_simulation_state,  \* simulator.py's module-level dict
    last_simulated_day,      \* simulator.py's module-level day tracker (0 is None)
    rng,                     \* the random source each subject draws from in this run
    history_window,          \* seconds covered by the backfill (now - start_time)
    now,                     \* datetime.utcnow() as last read by a driver
    current_time,            \* the backfill loop's current_time
    data_to_add,             \* number of buffered DataPoints per subject (backfill)
    wearable_data,           \* number of committed WearableData rows per subject
    last_point,              \* the DataPoint last produced for each subject
    tick_log,                \* what the last driver run did with its collaborators, in order
    tick_result,             \* how the last live tick ended
    tick_phase,              \* what each subject's last step read, drew and left in its state
    ticks,                   \* number of live ticks run so far
    probe                    \* arguments and result of a pure-function call

program_vars == <<pc, roster, staff, db_staff, staff_simulation_state,
                  last_simulated_day, rng, history_window, now, current_time,
                  data_to_add, wearable_data, last_point, tick_log,
                  tick_result, tick_phase, ticks>>

vars == <<pc, roster, staff, db_staff, staff_simulation_state,
          last_simulated_day, rng, history_window, now, current_time,
          data_to_add, wearable_data, last_point, tick_log,
          tick_result, tick_phase, ticks, probe>>

(***************************************************************************)
(* Bounds of the model                                                     *)
(***************************************************************************)
NumStaff == 2        \* subjects in staff_data.json
MaxTicks == 2        \* live ticks explored after init_db
WindowSteps == 1     \* 5-second intervals in the short backfill window
DriftSteps == 50     \* 5-second intervals in the backfill window of a deterministic run
NarrowRange == 4     \* widest integer range the sampled random source draws in full
RecoverySteps == 3   \* 5-second intervals in the backfill window of a recovery run
RecoveryTicks == 3   \* live ticks explored after the backfill of a recovery run
FairSteps == 2       \* 5-second intervals in the backfill window of a fair run

(***************************************************************************)
(* Program constants                                                       *)
(***************************************************************************)
simulation_interval_seconds == 5
HistoryDays == 2
SchedulerSeconds == 5
DefaultHeartRate == 70
DefaultHrv == 50
DefaultSteps == 0
MinHeartRate == 50
MaxHeartRate == 160
MinHrv == 15
MaxHrv == 100

SecondsPerDay == 86400
DaysInMonth == 31

StaffIds == 1..NumStaff

Max(a, b) == IF a >= b THEN a ELSE b
Min(a, b) == IF a <= b THEN a ELSE b

\* Python's round(): n/d to the nearest integer, ties to the even one (n >= 0, d > 0).
RoundDiv(n, d) ==
    LET q == n \div d
        r == n % d
    IN  IF 2 * r < d THEN q
        ELSE IF 2 * r > d THEN q + 1
        ELSE IF q % 2 = 0 THEN q ELSE q + 1

\* datetime fields of a time in seconds
HourOf(t) == (t % SecondsPerDay) \div 3600
MinuteOf(t) == (t % 3600) \div 60
DayOf(t) == ((t \div SecondsPerDay) % DaysInMonth) + 1

(***************************************************************************)
(* Pure functions                                                          *)
(***************************************************************************)
calculate_stress_level_ge(hr, hrv) ==
    IF hr >= 120 \/ hrv < 25 THEN "Critical"
    ELSE IF hr > 100 \/ hrv < 40 THEN "High"
    ELSE "Normal"

calculate_stress_level(hr, hrv) ==
    IF hr > 120 \/ hrv < 25 THEN "Critical"
    ELSE IF hr > 100 \/ hrv < 40 THEN "High"
    ELSE "Normal"

\* The four component scores, each times a scale that makes it an integer:
\* hr_score in halves, hrv_score in units, steadiness_score in tenths
\* (steadiness in thousandths), sleep_score in quarters (sleep in hundredths).
hr_score2(hr) == Max(0, 200 - (Max(0, hr - 60) * 3))
hrv_score(hrv) == Min(100, Max(0, (hrv - 30) * 2))
steadiness_score10(steadiness) == Min(1000, Max(0, steadiness))
sleep_score4(sleep) == Min(400, Max(0, sleep - 400))

\* mwi in units of 1/10000: 0.20*hr + 0.30*hrv + 0.30*steadiness + 0.20*sleep
mwi_sum(hr, hrv, steadiness, sleep) ==
      (hr_score2(hr) * 1000)
    + (hrv_score(hrv) * 3000)
    + (steadiness_score10(steadiness) * 300)
    + (sleep_score4(sleep) * 500)

calculate_mwi_weights_swapped(hr, hrv, steadiness, sleep) ==
    RoundDiv(Max(0, Min(1000000,
        (hr_score2(hr) * 1500) + (hrv_score(hrv) * 2000)
        + (steadiness_score10(steadiness) * 300) + (sleep_score4(sleep) * 500))), 1000)

\* round(max(0, min(100, mwi)), 1), in tenths
calculate_mwi(hr, hrv, steadiness, sleep) ==
    RoundDiv(Max(0, Min(1000000, mwi_sum(hr, hrv, steadiness, sleep))), 1000)

(***************************************************************************)
(* The random source.  Each subject draws from a source r, which names the *)
(* slice of the random module's outputs that the run explores for that     *)
(* subject.  The draws fall into four families that never feed each other  *)
(* backwards (heart rate, HRV, steadiness, sleep); a branching source      *)
(* varies one family and holds the others at a representative value:       *)
(*   "hr", "hrv"       the integer draws of that family take every value   *)
(*                     of a narrow range, the ends and middle of a wide one*)
(*   "steady", "sleep" the real draws of that family take both ends of     *)
(*                     their range and an interior value off the rounding  *)
(*                     grid                                                *)
(* and random.random() falls on either side of both event thresholds.      *)
(* The source "noise" varies only the noise term of the heart rate and      *)
(* random.random().                                                        *)
(* The other sources are deterministic and fire no stress event; they      *)
(* carry a run far enough to meet the clamps:                              *)
(*   "low"     every draw returns the low end of its range;                *)
(*   "up"      a signed noise term returns its high end and a magnitude    *)
(*             (pull, bias, correction) its low end;                       *)
(*   "fixed"   every draw returns a value inside its range.                *)
(***************************************************************************)
Branching == {"hr", "hrv", "steady", "sleep"}
Mid(a, b) == (a + b) \div 2
Inner(a, b) == a + (((b - a) * 3) \div 8)
Drift(r, a, b) == IF r = "up" /\ a < 0 THEN b ELSE a

\* random.randint(a, b)
randint(r, family, a, b) ==
    IF r = family THEN (IF b - a <= NarrowRange THEN a..b ELSE {a, Mid(a, b), b})
    ELSE IF r \in {"low", "up"} THEN {Drift(r, a, b)}
    ELSE {Mid(a, b)}

\* random.uniform(a, b), in the fixed-point unit of its call site
uniform(r, family, a, b) ==
    IF r = family THEN {a, Inner(a, b), b}
    ELSE IF r \in {"low", "up"} THEN {Drift(r, a, b)}
    ELSE {Inner(a, b)}

\* random.random(), in units of 1/10000
random(r) ==
    IF r \in Branching \cup {"noise"} THEN {0, 50, 500} ELSE {5000}

\* random.randint(-2, 2), the noise term of hr_change (lines 149 and 320)
hr_noise(r) == IF r = "noise" THEN -2..2 ELSE randint(r, "hr", -2, 2)

\* the maps that give every subject i one of its possible values S[i]
RECURSIVE Choices(_, _)
Choices(S, n) ==
    IF n = 0 THEN {<<>>}
    ELSE { Append(f, x) : f \in Choices(S, n - 1), x \in S[n] }

PerStaff(S) == { [i \in StaffIds |-> f[i]] : f \in Choices(S, NumStaff) }

(***************************************************************************)
(* Records                                                                 *)
(***************************************************************************)
\* models.py column defaults of a Staff row created by init_db
NewStaff ==
    [ stress_level           |-> "Normal",
      current_heart_rate     |-> DefaultHeartRate,
      current_hrv            |-> DefaultHrv,
      sleep_hours_last_night |-> 70,      \* tenths
      current_steadiness     |-> 85,      \* hundredths
      current_sleep_index    |-> 70,      \* tenths
      mental_wellness_index  |-> 750,     \* tenths
      last_update            |-> 0 ]

NoState == [ present |-> FALSE ]
NoPoint == [ driver |-> "none" ]
NoPhase == [ stepped |-> FALSE ]
NoDraw == -1     \* stands for a value the step has not drawn
\* the intermediate values of one step: the heart rate before the pull and
\* before the clamp, the HRV before the clamp, the step count of line 382
Draws(h, v, current_steps) ==
    [ hr_before_pull   |-> h.before_pull,
      hr_before_clamp  |-> h.before_clamp,
      hrv_before_clamp |-> v.before_clamp,
      current_steps    |-> current_steps ]

Phase(member, old_state, out) ==
    [ stepped             |-> TRUE,
      prev_hr             |-> member.current_heart_rate,
      prev_hrv            |-> member.current_hrv,
      prev_trend          |-> old_state.hr_trend,
      hr_trend            |-> out.state.hr_trend,
      stress_event_chance |-> out.state.stress_event_chance,
      hr_before_pull      |-> out.draws.hr_before_pull,
      hr_before_clamp     |-> out.draws.hr_before_clamp,
      hrv_before_clamp    |-> out.draws.hrv_before_clamp,
      current_steps       |-> out.draws.current_steps ]

\* a call on the persistence collaborator (db.session)
Ev(name) == [ ev |-> name ]

StressEventChance == 500     \* 0.05 in units of 1/10000

\* random.uniform(5.0, 9.5), in hundredths
new_sleep_index_last_night(r) == uniform(r, "sleep", 500, 950)

\* the dict literal of initialize_simulation_state; baseline_hrv is stored
\* and never used, so one value stands for its draw
NewStates(r) ==
    { [ present                |-> TRUE,
        baseline_hr            |-> bhr,
        baseline_hrv           |-> Mid(40, 70),
        hr_trend               |-> 0,
        hrv_trend              |-> 0,
        stress_event_chance    |-> StressEventChance,
        sleep_hours            |-> sh,
        base_steadiness        |-> bs,
        sleep_index_last_night |-> sl ] :
        bhr \in randint(r, "hr", 60, 80),
        sh \in uniform(r, "sleep", 550, 850), bs \in uniform(r, "steady", 700, 950),
        sl \in new_sleep_index_last_night(r) }

\* initialize_simulation_state(staff_list) called on day current_day:
\* the possible values of (staff_simulation_state, last_simulated_day)
initialize_simulation_state_redrawn(states, last_day, staff_list, current_day) ==
    LET day0 == IF last_day = 0 THEN current_day ELSE last_day
        One(i) ==
            IF i \notin staff_list THEN {states[i]}
            ELSE IF ~states[i].present \/ day0 # current_day THEN NewStates(rng[i])
            ELSE {states[i]}
    IN  { [ states |-> f, last_day |-> current_day ] : f \in PerStaff([i \in StaffIds |-> One(i)]) }

initialize_simulation_state(states, last_day, staff_list, current_day) ==
    LET day0 == IF last_day = 0 THEN current_day ELSE last_day
        One(i) ==
            IF i \notin staff_list THEN {states[i]}
            ELSE IF ~states[i].present THEN NewStates(rng[i])
            ELSE IF day0 # current_day
                 THEN { [states[i] EXCEPT !.sleep_index_last_night = sl] :
                           sl \in new_sleep_index_last_night(rng[i]) }
                 ELSE {states[i]}
    IN  { [ states |-> f, last_day |-> current_day ] : f \in PerStaff([i \in StaffIds |-> One(i)]) }

(***************************************************************************)
(* populate_historical_data: one subject at one timestamp                  *)
(***************************************************************************)
\* line 168 (backfill) and line 361 (live tick): max(50, min(160, current_hr))
clamp_heart_rate_no_floor(hr) == Min(MaxHeartRate, hr)

clamp_heart_rate_floor_at_90(hr) == Max(90, Min(MaxHeartRate, hr))

clamp_heart_rate(hr) == Max(MinHeartRate, Min(MaxHeartRate, hr))

\* lines 151-160: the trend phase after the step; fires says that
\* random.random() fell below stress_event_chance / 10
hist_trend_peak_held(state, prev_hr, fires) ==
    IF state.hr_trend = 0 /\ fires THEN 1
    ELSE IF state.hr_trend = 0 THEN 0
    ELSE IF state.hr_trend = 1 /\ prev_hr <= state.baseline_hr + 5 THEN 1
    ELSE IF state.hr_trend = 1 THEN -1
    ELSE IF prev_hr <= state.baseline_hr + 5 THEN 0
    ELSE -1

hist_trend_below_only(state, prev_hr, fires) ==
    IF state.hr_trend = 0 /\ fires THEN 1
    ELSE IF state.hr_trend = 0 THEN 0
    ELSE IF state.hr_trend = 1 THEN -1
    ELSE IF prev_hr < state.baseline_hr + 5 THEN 0
    ELSE -1

hist_trend(state, prev_hr, fires) ==
    IF state.hr_trend = 0 /\ fires THEN 1
    ELSE IF state.hr_trend = 0 THEN 0
    ELSE IF state.hr_trend = 1 THEN -1
    ELSE IF prev_hr <= state.baseline_hr + 5 THEN 0
    ELSE -1

\* lines 163-167: the pull towards the baseline while the trend is stable
hist_pull_in_any_phase(r, trend, baseline_hr, hr) ==
    IF hr > baseline_hr + 10
        THEN { hr - p : p \in randint(r, "hr", 0, 2) }
    ELSE IF hr < baseline_hr - 5
        THEN { hr + p : p \in randint(r, "hr", 0, 1) }
    ELSE {hr}

hist_pull(r, trend, baseline_hr, hr) ==
    IF trend = 0 /\ hr > baseline_hr + 10
        THEN { hr - p : p \in randint(r, "hr", 0, 2) }
    ELSE IF trend = 0 /\ hr < baseline_hr - 5
        THEN { hr + p : p \in randint(r, "hr", 0, 1) }
    ELSE {hr}

\* lines 149-168: the trend step and the new heart rate
hist_heart_rate(r, prev_hr, state) ==
    UNION { LET fires == state.hr_trend = 0 /\ u * 10 < state.stress_event_chance
                trend == hist_trend(state, prev_hr, fires)
            IN  UNION { LET unpulled == prev_hr + noise + (state.hr_trend * 2) + spike
                        IN  { [ hr_trend |-> trend,
                                stress_event_chance |-> state.stress_event_chance,
                                before_pull |-> unpulled,
                                before_clamp |-> h,
                                current_hr |-> clamp_heart_rate(h) ] :
                              h \in hist_pull(r, trend, state.baseline_hr, unpulled) } :
                        spike \in IF fires THEN randint(r, "hr", 10, 20) ELSE {0} } :
            noise \in hr_noise(r), u \in random(r) }

\* lines 170-179: the HRV before and after the clamp of line 179
hist_hrv(r, prev_hrv, hr_trend, current_hr) ==
    LET trend_part == IF hr_trend = 1 THEN { 0 - d : d \in randint(r, "hrv", 2, 5) }
                      ELSE IF hr_trend = -1 THEN randint(r, "hrv", 1, 4)
                      ELSE {0}
        level_part == IF current_hr > 100 THEN { 0 - d : d \in randint(r, "hrv", 0, 3) }
                      ELSE IF current_hr < 70 THEN randint(r, "hrv", 0, 1)
                      ELSE {0}
    IN  { [ before_clamp |-> prev_hrv + n + t + l,
            current_hrv  |-> Max(MinHrv, Min(MaxHrv, prev_hrv + n + t + l)) ] :
            n \in randint(r, "hrv", -3, 3), t \in trend_part, l \in level_part }

\* lines 189-196: base_steadiness plus the change, in thousandths, clamped
\* to [0, 1] and rounded to hundredths
hist_steadiness(r, base_steadiness, hr_trend) ==
    LET trend_part == IF hr_trend = 1 THEN { 0 - d : d \in uniform(r, "steady", 0, 100) }
                      ELSE IF hr_trend = -1 THEN uniform(r, "steady", 0, 50)
                      ELSE {0}
    IN  { RoundDiv(Max(0, Min(1000, base_steadiness + c + t)), 10) :
            c \in uniform(r, "steady", -50, 50), t \in trend_part }

\* lines 199-240: the sleep index stored for timestamp t, in tenths
hist_sleep_index(r, t, sleep_index_last_night) ==
    LET hour == HourOf(t)
        minute == MinuteOf(t)
        sleep_start_hour == 23
        deep_sleep_start_hour == 0
        wake_up_start_hour == 6
        sleep_end_hour == 7
    IN  IF ~(sleep_end_hour <= hour /\ hour < sleep_start_hour - 1)
        THEN IF hour = sleep_start_hour
             THEN { RoundDiv(Max(0, Min(60000,
                        (sleep_index_last_night * minute) + (60 * v))), 600) :
                    v \in uniform(r, "sleep", -50, 50) }
             ELSE IF deep_sleep_start_hour <= hour /\ hour < wake_up_start_hour
             THEN { RoundDiv(Max(0, Min(1000, sleep_index_last_night + v)), 10) :
                    v \in uniform(r, "sleep", -70, 70) }
             ELSE IF hour = wake_up_start_hour
             THEN { RoundDiv(Max(0, Min(60000,
                        (sleep_index_last_night * (60 - minute)) + (60 * v))), 600) :
                    v \in uniform(r, "sleep", -30, 30) }
             ELSE {0}
        ELSE {0}

\* lines 134-270: the body of the loop over all_staff, for one subject:
\* the new SimulationState entry, the DataPoint appended to data_to_add and
\* the updated Staff object
hist_outcome(member, state, t, h, v, st, sl) ==
    LET mwi == calculate_mwi(h.current_hr, v.current_hrv, st * 10, state.sleep_hours)
    IN  [ state |-> [state EXCEPT !.hr_trend = h.hr_trend],
          draws |-> Draws(h, v, NoDraw),
          point |-> [ driver      |-> "hist",
                      timestamp   |-> t,
                      heart_rate  |-> h.current_hr,
                      hrv         |-> v.current_hrv,
                      steadiness  |-> st,
                      sleep_index |-> sl,
                      mwi         |-> mwi,
                      steps       |-> DefaultSteps ],
          staff |-> [member EXCEPT
                      !.current_heart_rate = h.current_hr,
                      !.current_hrv = v.current_hrv,
                      !.current_steadiness = st,
                      !.mental_wellness_index = mwi,
                      !.current_sleep_index = RoundDiv(state.sleep_index_last_night, 10),
                      !.last_update = t ] ]

hist_step(r, member, state, t) ==
    UNION { UNION { { hist_outcome(member, state, t, h, v, st, sl) :
                        st \in hist_steadiness(r, state.base_steadiness, h.hr_trend),
                        sl \in hist_sleep_index(r, t, state.sleep_index_last_night) } :
                    v \in hist_hrv(r, member.current_hrv, h.hr_trend, h.current_hr) } :
            h \in hist_heart_rate(r, member.current_heart_rate, state) }

(***************************************************************************)
(* simulate_data: one subject in one live tick                             *)
(***************************************************************************)
\* lines 324-347: the trend phase and the stress-event probability after
\* the step; fires says that random.random() fell below stress_event_chance
live_trend_skips_recovery(state, prev_hr, fires) ==
    IF state.hr_trend = 0 /\ fires
    THEN [ hr_trend |-> 1, stress_event_chance |-> 0 ]
    ELSE IF state.hr_trend = 0
    THEN [ hr_trend |-> 0, stress_event_chance |-> state.stress_event_chance ]
    ELSE [ hr_trend |-> 0, stress_event_chance |-> StressEventChance ]

live_trend(state, prev_hr, fires) ==
    IF state.hr_trend = 0 /\ fires
    THEN [ hr_trend |-> 1, stress_event_chance |-> 0 ]
    ELSE IF state.hr_trend = 0
    THEN [ hr_trend |-> 0, stress_event_chance |-> state.stress_event_chance ]
    ELSE IF state.hr_trend = 1
    THEN [ hr_trend |-> -1, stress_event_chance |-> state.stress_event_chance ]
    ELSE IF prev_hr <= state.baseline_hr + 5
    THEN [ hr_trend |-> 0, stress_event_chance |-> StressEventChance ]
    ELSE [ hr_trend |-> -1, stress_event_chance |-> state.stress_event_chance ]

\* lines 354-358: the pull towards the baseline while the trend is stable
live_pull_away(r, trend, baseline_hr, hr) ==
    IF trend = 0 /\ hr > baseline_hr + 10
        THEN { hr + p : p \in randint(r, "hr", 0, 2) }
    ELSE IF trend = 0 /\ hr < baseline_hr - 5
        THEN { hr - p : p \in randint(r, "hr", 0, 1) }
    ELSE {hr}

live_pull(r, trend, baseline_hr, hr) ==
    IF trend = 0 /\ hr > baseline_hr + 10
        THEN { hr - p : p \in randint(r, "hr", 0, 2) }
    ELSE IF trend = 0 /\ hr < baseline_hr - 5
        THEN { hr + p : p \in randint(r, "hr", 0, 1) }
    ELSE {hr}

\* lines 320-361: the trend step and the new heart rate
live_heart_rate(r, prev_hr, state) ==
    UNION { LET fires == state.hr_trend = 0 /\ u < state.stress_event_chance
                next == live_trend(state, prev_hr, fires)
            IN  UNION { LET unpulled == prev_hr + noise + (state.hr_trend * 2) + spike
                        IN  { [ hr_trend |-> next.hr_trend,
                                stress_event_chance |-> next.stress_event_chance,
                                before_pull |-> unpulled,
                                before_clamp |-> h,
                                current_hr |-> clamp_heart_rate(h) ] :
                              h \in live_pull(r, next.hr_trend, state.baseline_hr, unpulled) } :
                        spike \in IF fires THEN randint(r, "hr", 20, 40) ELSE {0} } :
            noise \in hr_noise(r), u \in random(r) }

\* lines 365-379: the HRV before and after the clamp of line 379
live_hrv_without_level(r, prev_hrv, hr_trend, current_hr) ==
    LET trend_part == IF hr_trend = 1 THEN { 0 - d : d \in randint(r, "hrv", 4, 8) }
                      ELSE IF hr_trend = -1 THEN randint(r, "hrv", 2, 5)
                      ELSE {0}
    IN  { [ before_clamp |-> prev_hrv + n + t,
            current_hrv  |-> Max(MinHrv, Min(MaxHrv, prev_hrv + n + t)) ] :
            n \in randint(r, "hrv", -3, 3), t \in trend_part }

live_hrv(r, prev_hrv, hr_trend, current_hr) ==
    LET trend_part == IF hr_trend = 1 THEN { 0 - d : d \in randint(r, "hrv", 4, 8) }
                      ELSE IF hr_trend = -1 THEN randint(r, "hrv", 2, 5)
                      ELSE {0}
        level_part == IF current_hr > 100 THEN { 0 - d : d \in randint(r, "hrv", 1, 5) }
                      ELSE IF current_hr < 70 THEN randint(r, "hrv", 0, 2)
                      ELSE {0}
    IN  { [ before_clamp |-> prev_hrv + n + t + l,
            current_hrv  |-> Max(MinHrv, Min(MaxHrv, prev_hrv + n + t + l)) ] :
            n \in randint(r, "hrv", -3, 3), t \in trend_part, l \in level_part }

\* lines 388-395: current_steadiness, in thousandths (not yet rounded)
live_steadiness(r, base_steadiness, hr_trend) ==
    LET trend_part == IF hr_trend = 1 THEN { 0 - d : d \in uniform(r, "steady", 0, 100) }
                      ELSE IF hr_trend = -1 THEN uniform(r, "steady", 0, 50)
                      ELSE {0}
    IN  { Max(0, Min(1000, base_steadiness + c + t)) :
            c \in uniform(r, "steady", -50, 50), t \in trend_part }

\* lines 402-411: the sleep index stored for a tick at time t, in tenths
live_sleep_index_or_default(t, member) ==
    LET current_hour_utc == HourOf(t)
        is_night == 22 <= current_hour_utc \/ current_hour_utc < 8
    IN  IF ~is_night THEN 0
        ELSE IF member.current_sleep_index = 0 THEN NewStaff.current_sleep_index
        ELSE member.current_sleep_index

live_sleep_index(t, member) ==
    LET current_hour_utc == HourOf(t)
        is_night == 22 <= current_hour_utc \/ current_hour_utc < 8
    IN  IF is_night THEN member.current_sleep_index ELSE 0

\* lines 421-430: the steps column of the DataPoint; the constructor is
\* given no steps argument, so the row takes the column default
point_steps(current_steps) == DefaultSteps

\* lines 312-450: the body of the loop over all_staff, for one subject
live_outcome(member, state, t, h, v, st, current_steps) ==
    LET sleep_hours == IF member.sleep_hours_last_night = 0
                       THEN 75 ELSE member.sleep_hours_last_night
        sleep_index_to_store == live_sleep_index(t, member)
        current_mwi == Max(0, Min(1000, calculate_mwi(h.current_hr, v.current_hrv, st,
                                                      sleep_hours * 10)))
    IN  [ state |-> [state EXCEPT !.hr_trend = h.hr_trend,
                                  !.stress_event_chance = h.stress_event_chance],
          draws |-> Draws(h, v, current_steps),
          point |-> [ driver      |-> "live",
                      timestamp   |-> t,
                      heart_rate  |-> h.current_hr,
                      hrv         |-> v.current_hrv,
                      steadiness  |-> RoundDiv(st, 10),
                      sleep_index |-> sleep_index_to_store,
                      mwi         |-> current_mwi,
                      steps       |-> point_steps(current_steps) ],
          staff |-> [member EXCEPT
                      !.current_heart_rate = h.current_hr,
                      !.current_hrv = v.current_hrv,
                      !.stress_level = calculate_stress_level(h.current_hr, v.current_hrv),
                      !.current_steadiness = RoundDiv(st, 10),
                      !.current_sleep_index = sleep_index_to_store,
                      !.sleep_hours_last_night = sleep_hours,
                      !.mental_wellness_index = current_mwi,
                      !.last_update = t ] ]

live_step(r, member, state, t) ==
    UNION { UNION { { live_outcome(member, state, t, h, v, st, current_steps) :
                        st \in live_steadiness(r, state.base_steadiness, h.hr_trend),
                        current_steps \in randint(r, "steps", 0, 10) } :
                    v \in live_hrv(r, member.current_hrv, h.hr_trend, h.current_hr) } :
            h \in live_heart_rate(r, member.current_heart_rate, state) }

(***************************************************************************)
(* The process: init_db, the backfill, then the scheduler's live ticks     *)
(***************************************************************************)
Clock(day, hour, minute, second) ==
    (day * SecondsPerDay) + (hour * 3600) + (minute * 60) + second

\* wall-clock times at which init_db is run: just before and after the hour
\* boundaries of the sleep curve and the change of day
StartClocks ==
    { Clock(2, 7, 0, 0), Clock(2, 21, 59, 50), Clock(2, 21, 59, 55), Clock(2, 23, 0, 0),
      Clock(2, 23, 59, 55), Clock(3, 0, 0, 0) }

DriftClocks == { Clock(3, 0, 0, 0) }

Everyone(x) == [i \in StaffIds |-> x]

\* a database that already holds Staff rows (a restart): the rows are those
\* of an earlier run, here the defaults or values at the ends of their ranges
StoredStaff ==
    { NewStaff,
      [NewStaff EXCEPT !.current_heart_rate = MaxHeartRate, !.current_hrv = MinHrv,
                       !.stress_level = "Critical", !.current_sleep_index = 0] }

InitProgram(profiles, window, clocks) ==
    /\ pc = "init_db"
    /\ \E r \in profiles : rng = [i \in StaffIds |-> IF i = 1 THEN r ELSE "fixed"]
    /\ history_window = window
    /\ now \in clocks
    /\ \/ /\ roster = {}
          /\ staff = Everyone(NewStaff)
          /\ wearable_data = Everyone(0)
       \/ /\ roster = StaffIds
          /\ \E m \in StoredStaff : staff = Everyone(m)
          /\ wearable_data \in {Everyone(0), Everyone(1)}
    /\ db_staff = staff
    /\ staff_simulation_state = Everyone(NoState)
    /\ last_simulated_day = 0
    /\ current_time = 0
    /\ data_to_add = Everyone(0)
    /\ last_point = Everyone(NoPoint)
    /\ tick_log = <<>>
    /\ tick_result = "none"
    /\ tick_phase = Everyone(NoPhase)
    /\ ticks = 0

NoProbe == [ fn |-> "none" ]

Init ==
    /\ \/ InitProgram(Branching,
                      WindowSteps * simulation_interval_seconds, StartClocks)
       \/ InitProgram({"low", "up"},
                      DriftSteps * simulation_interval_seconds, DriftClocks)
    /\ probe = NoProbe

\* lines 112-114: start_time = now - timedelta(days=2)
start_time_one_step_late(end, window) == (end - window) + simulation_interval_seconds

start_time(end, window) == end - window

\* app.py init_db with an empty Staff table and a readable staff_data.json:
\* the sample staff are committed and populate_historical_data runs up to
\* its loop (simulator.py lines 99-117)
init_db_seeded ==
    /\ pc = "init_db"
    /\ roster = {}
    /\ \A i \in StaffIds : wearable_data[i] = 0
    /\ roster' = StaffIds
    /\ staff' = Everyone(NewStaff)
    /\ db_staff' = Everyone(NewStaff)
    /\ \E r \in initialize_simulation_state(Everyone(NoState), 0, StaffIds, DayOf(now)) :
          /\ staff_simulation_state' = r.states
          /\ last_simulated_day' = r.last_day
    /\ current_time' = start_time(now, history_window)
    /\ data_to_add' = Everyone(0)
    /\ pc' = "historical"
    /\ UNCHANGED <<rng, history_window, now, wearable_data, last_point, tick_log,
                   tick_result, tick_phase, ticks, probe>>

\* init_db when the seed file cannot be loaded (no staff are created), or
\* when the Staff table is not empty: the backfill is skipped
init_db_skipped ==
    /\ pc = "init_db"
    /\ pc' = "scheduler"
    /\ UNCHANGED <<roster, staff, db_staff, staff_simulation_state, last_simulated_day,
                   rng, history_window, now, current_time, data_to_add, wearable_data,
                   last_point, tick_log, tick_result, tick_phase, ticks, probe>>

\* the guard of the backfill loop, line 119
loop_continues_exclusive(t, end) == t < end

loop_continues(t, end) == t <= end

\* lines 125-131: the nightly sleep index of every subject on a new day
daily_update(states, last_day, day) ==
    IF last_day # day
    THEN PerStaff([i \in StaffIds |->
            IF states[i].present
            THEN { [states[i] EXCEPT !.sleep_index_last_night = sl] :
                     sl \in new_sleep_index_last_night(rng[i]) }
            ELSE {states[i]}])
    ELSE {states}

\* one iteration of the while loop, lines 119-273
historical_step ==
    /\ pc = "historical"
    /\ loop_continues(current_time, now)
    /\ \E states \in daily_update(staff_simulation_state, last_simulated_day,
                                  DayOf(current_time)) :
       \E out \in PerStaff([i \in StaffIds |->
                             hist_step(rng[i], staff[i], states[i], current_time)]) :
          /\ staff_simulation_state' = [i \in StaffIds |-> out[i].state]
          /\ staff' = [i \in StaffIds |-> out[i].staff]
          /\ last_point' = [i \in StaffIds |-> out[i].point]
          /\ tick_phase' = [i \in StaffIds |-> Phase(staff[i], states[i], out[i])]
    /\ last_simulated_day' = DayOf(current_time)
    /\ data_to_add' = [i \in StaffIds |-> data_to_add[i] + 1]
    /\ current_time' = current_time + simulation_interval_seconds
    /\ UNCHANGED <<pc, roster, db_staff, rng, history_window, now, wearable_data,
                   tick_log, tick_result, ticks, probe>>

\* line 279: db.session.commit() flushes the session, so the Staff objects
\* the loop has modified are written in the transaction of the bulk insert
commit_flushes_staff_skipped(session_staff, stored_staff) == stored_staff

commit_flushes_staff(session_staff, stored_staff) == session_staff

\* lines 275-294 and the except clause of init_db: the bulk insert and the
\* two commits.  The first commit flushes the session, so it also writes the
\* modified Staff objects; a failure there leaves populate_historical_data
\* and is rolled back by init_db.
bulk_insert ==
    /\ pc = "historical"
    /\ ~loop_continues(current_time, now)
    /\ \E first_ok \in BOOLEAN, second_ok \in BOOLEAN :
          IF first_ok
          THEN LET after_first == commit_flushes_staff(staff, db_staff)
               IN  /\ wearable_data' = [i \in StaffIds |-> wearable_data[i] + data_to_add[i]]
                   /\ db_staff' = IF second_ok THEN staff ELSE after_first
                   /\ staff' = db_staff'
                   /\ tick_log' =
                         IF second_ok
                         THEN <<Ev("bulk_save"), Ev("commit"), Ev("add_all"), Ev("commit")>>
                         ELSE <<Ev("bulk_save"), Ev("commit"), Ev("add_all"),
                                Ev("commit_failed"), Ev("rollback")>>
          ELSE /\ wearable_data' = wearable_data
               /\ db_staff' = db_staff
               /\ staff' = db_staff
               /\ tick_log' = <<Ev("bulk_save"), Ev("commit_failed"), Ev("rollback")>>
    /\ pc' = "scheduler"
    /\ UNCHANGED <<roster, staff_simulation_state, last_simulated_day, rng,
                   history_window, now, current_time, data_to_add, last_point,
                   tick_result, tick_phase, ticks, probe>>

(***************************************************************************)
(* simulate_data, the scheduled job (app.py run_simulation_job)            *)
(***************************************************************************)
\* the subjects of all_staff the loop reaches: those before the first one
\* with no entry in staff_simulation_state (line 313 raises KeyError there)
Reached(all_staff) ==
    { i \in all_staff :
        \A j \in all_staff : j <= i => staff_simulation_state[j].present }

\* send_staff_update: one emit of the subject's to_dict()
Emit(i, member) == [ ev |-> "emit", id |-> i, snapshot |-> member ]

RECURSIVE Emits(_, _, _)
Emits(ids, out, i) ==
    IF i > NumStaff THEN <<>>
    ELSE IF i \in ids THEN <<Emit(i, out[i].staff)>> \o Emits(ids, out, i + 1)
    ELSE Emits(ids, out, i + 1)

\* what the except clause of lines 468-470 leaves in staff_simulation_state
after_rollback_reverted(old_states, new_states) == old_states

after_rollback(old_states, new_states) == new_states

\* app.py lines 229-235: the scheduler is created and started after init_db()
\* has returned
scheduler_started_with_init(p) == p # "init_db"

scheduler_started(p) == p = "scheduler"

\* line 304: "if not all_staff"
no_staff_unchecked(all_staff) == FALSE

no_staff(all_staff) == all_staff = {}

\* the number of live ticks explored in a run
TickBound ==
    IF history_window = RecoverySteps * simulation_interval_seconds
    THEN RecoveryTicks ELSE MaxTicks

\* the order of the callbacks and the commit in one tick (lines 448-464)
tick_events(emits, outcome) == emits \o outcome

\* lines 303-470: one run of the job at wall-clock time t; rows is the
\* number of rows by which a committed tick raises the row count of a subject
tick(t, rows) ==
    IF no_staff(roster)
    THEN \* line 304: no staff, return
         /\ tick_result' = "noop"
         /\ tick_log' = <<>>
         /\ UNCHANGED <<staff, db_staff, staff_simulation_state, wearable_data,
                        last_point, tick_phase>>
    ELSE LET reached == Reached(roster)
             Step(i) == IF i \in reached
                        THEN live_step(rng[i], staff[i], staff_simulation_state[i], t)
                        ELSE { [ state |-> staff_simulation_state[i],
                                 point |-> last_point[i],
                                 staff |-> staff[i] ] }
         IN  \E out \in PerStaff([i \in StaffIds |-> Step(i)]), commit_ok \in BOOLEAN :
               LET new_states == [i \in StaffIds |-> out[i].state]
                   emits == Emits(reached, out, 1)
               IN  /\ last_point' = [i \in StaffIds |-> out[i].point]
                   /\ tick_phase' = [i \in StaffIds |->
                                       IF i \in reached
                                       THEN Phase(staff[i], staff_simulation_state[i], out[i])
                                       ELSE tick_phase[i]]
                   /\ \/ \* line 313 raises KeyError; nothing is committed
                         /\ reached # roster
                         /\ commit_ok
                         /\ tick_result' = "raised"
                         /\ tick_log' = emits
                         /\ staff_simulation_state' = new_states
                         /\ UNCHANGED <<staff, db_staff, wearable_data>>
                      \/ \* line 464 commits the DataPoints and the Staff rows
                         /\ reached = roster
                         /\ commit_ok
                         /\ tick_result' = "ok"
                         /\ tick_log' = tick_events(emits, <<Ev("add_all"), Ev("commit")>>)
                         /\ staff' = [i \in StaffIds |-> out[i].staff]
                         /\ db_staff' = staff'
                         /\ wearable_data' = [i \in StaffIds |-> wearable_data[i] + rows]
                         /\ staff_simulation_state' = new_states
                      \/ \* lines 468-470: the commit raises and is rolled back
                         /\ reached = roster
                         /\ ~commit_ok
                         /\ tick_result' = "rolled_back"
                         /\ tick_log' = tick_events(emits,
                               <<Ev("add_all"), Ev("commit_failed"), Ev("rollback")>>)
                         /\ staff_simulation_state' =
                               after_rollback(staff_simulation_state, new_states)
                         /\ UNCHANGED <<staff, db_staff, wearable_data>>

simulate_data ==
    /\ scheduler_started(pc)
    /\ ticks < TickBound
    /\ ticks' = ticks + 1
    /\ now' = now + SchedulerSeconds
    /\ tick(now', 1)
    /\ UNCHANGED <<pc, roster, last_simulated_day, rng, history_window, current_time,
                   data_to_add, probe>>

Next ==
    \/ init_db_seeded
    \/ init_db_skipped
    \/ historical_step
    \/ bulk_insert
    \/ simulate_data

Spec == Init /\ [][Next]_vars

\* the full backfill of the program: two days at 5-second steps, every
\* subject drawing from the deterministic source "fixed"
InitHistory ==
    /\ InitProgram({"fixed"}, HistoryDays * SecondsPerDay, DriftClocks)
    /\ probe = NoProbe

SpecHistory == InitHistory /\ [][Next]_vars

(***************************************************************************)
(* The pure functions called on arguments drawn from their domains         *)
(***************************************************************************)
ProgramAtRest ==
    InitProgram({"fixed"}, WindowSteps * simulation_interval_seconds, DriftClocks)
    /\ roster = {}

InitClassify ==
    /\ ProgramAtRest
    /\ \E hr \in MinHeartRate..MaxHeartRate, hrv \in MinHrv..MaxHrv :
          probe = [ fn |-> "calculate_stress_level", hr |-> hr, hrv |-> hrv,
                    called |-> FALSE, result |-> "" ]

call_calculate_stress_level ==
    /\ probe.fn = "calculate_stress_level"
    /\ ~probe.called
    /\ probe' = [probe EXCEPT !.called = TRUE,
                              !.result = calculate_stress_level(probe.hr, probe.hrv)]
    /\ UNCHANGED program_vars

SpecClassify == InitClassify /\ [][call_calculate_stress_level]_vars

\* argument samples: each argument in turn runs over its whole range while
\* the others take values at and around the breakpoints of their scores
HrSamples == {MinHeartRate, 60, 61, 93, 126, 127, MaxHeartRate}
HrvSamples == {MinHrv, 30, 31, 55, 79, 80, MaxHrv}
SteadinessSamples == {0, 1, 50, 85, 99, 100}          \* hundredths
SleepSamples == {0, 39, 40, 41, 70, 75, 79, 80, 81, 120}   \* tenths of an hour
MaxSleepTenths == 120

MwiProbe(hr, hrv, st, sl) ==
    [ fn |-> "calculate_mwi", hr |-> hr, hrv |-> hrv, steadiness |-> st, sleep |-> sl,
      called |-> FALSE, result |-> 0 ]

InitMwi ==
    /\ ProgramAtRest
    /\ \/ \E hr \in HrSamples, hrv \in HrvSamples, st \in SteadinessSamples,
             sl \in SleepSamples : probe = MwiProbe(hr, hrv, st, sl)
       \/ \E hr \in MinHeartRate..MaxHeartRate : probe = MwiProbe(hr, 55, 85, 70)
       \/ \E hrv \in MinHrv..MaxHrv : probe = MwiProbe(93, hrv, 85, 70)
       \/ \E st \in 0..100 : probe = MwiProbe(93, 55, st, 70)
       \/ \E sl \in 0..MaxSleepTenths : probe = MwiProbe(93, 55, 85, sl)

\* steadiness in hundredths and sleep hours in tenths, passed in the units
\* of calculate_mwi (thousandths, hundredths)
call_calculate_mwi ==
    /\ probe.fn = "calculate_mwi"
    /\ ~probe.called
    /\ probe' = [probe EXCEPT !.called = TRUE,
                              !.result = calculate_mwi(probe.hr, probe.hrv,
                                                       probe.steadiness * 10,
                                                       probe.sleep * 10)]
    /\ UNCHANGED program_vars

SpecMwi == InitMwi /\ [][call_calculate_mwi]_vars

\* a backfill long enough for a stress event to fire, peak and recover
\* inside it: every draw of the heart-rate family branches, the clock is at
\* midday
InitRecovery ==
    /\ InitProgram({"hr"}, RecoverySteps * simulation_interval_seconds,
                   {Clock(2, 12, 0, 0)})
    /\ probe = NoProbe

SpecRecovery == InitRecovery /\ [][Next]_vars

\* the runs of the job after the explored ticks, for as long as a subject
\* is away from Stable: the same tick, with the clock and the row counts
\* held at their caps and only the parity of the tick counter kept
simulate_data_uncounted ==
    /\ scheduler_started(pc)
    /\ ticks >= TickBound
    /\ \E i \in roster : /\ staff_simulation_state[i].present
                         /\ staff_simulation_state[i].hr_trend # 0
    /\ ticks' = IF ticks = TickBound THEN TickBound + 1 ELSE TickBound
    /\ tick(now, 0)
    /\ UNCHANGED <<pc, roster, last_simulated_day, rng, history_window, current_time,
                   data_to_add, probe, now>>

NextFair ==
    \/ Next
    \/ simulate_data_uncounted

InitFair ==
    /\ InitProgram({"noise"}, FairSteps * simulation_interval_seconds,
                   {Clock(2, 12, 0, 0)})
    /\ probe = NoProbe

\* app.py line 230: init_db() runs to its end; every step of it moves pc or
\* the loop's current_time
init_db_runs ==
    /\ pc # "scheduler"
    /\ pc' \in {"historical", "scheduler"}
    /\ current_time' \in {current_time, current_time + simulation_interval_seconds,
                          start_time(now, history_window)}

\* app.py lines 233-234: the interval trigger fires the job every 5 seconds;
\* every run of the job moves the tick counter
job_fires ==
    /\ scheduler_started(pc)
    /\ \/ ticks < TickBound
       \/ \E i \in roster : /\ staff_simulation_state[i].present
                            /\ staff_simulation_state[i].hr_trend # 0
    /\ ticks' \in 0..(TickBound + 1)

\* a run in which init_db runs to its end and the interval trigger keeps
\* firing the job
SpecFair ==
    /\ InitFair
    /\ [][NextFair]_vars
    /\ WF_<<pc, current_time>>(init_db_runs)
    /\ WF_ticks(job_fires)

\* a further call of initialize_simulation_state(all_staff) once init_db has
\* returned, on the day of the wall clock
call_initialize_simulation_state ==
    /\ pc = "scheduler"
    /\ \E r \in initialize_simulation_state(staff_simulation_state, last_simulated_day,
                                            roster, DayOf(now)) :
          /\ staff_simulation_state' = r.states
          /\ last_simulated_day' = r.last_day
    /\ probe' = [ fn |-> "initialize_simulation_state", before |-> staff_simulation_state ]
    /\ UNCHANGED <<pc, roster, staff, db_staff, rng, history_window, now, current_time,
                   data_to_add, wearable_data, last_point, tick_log, tick_result,
                   tick_phase, ticks>>

InitReinit ==
    /\ InitProgram(Branching, WindowSteps * simulation_interval_seconds,
                   {Clock(2, 23, 59, 55)})
    /\ probe = NoProbe

NextReinit ==
    \/ Next
    \/ call_initialize_simulation_state

\* the program, with initialize_simulation_state called again at any time
\* between the live ticks
SpecReinit == InitReinit /\ [][NextReinit]_vars

(***************************************************************************)
(* Properties                                                              *)
(***************************************************************************)
\* subject i has a DataPoint, and it came from the given driver
Produced(i) == last_point[i].driver # "none"
ProducedBy(i, driver) == last_point[i].driver = driver

\* a driver step is taken for subject i in this transition
Stepped(i) ==
    \/ pc = "historical" /\ current_time' # current_time
    \/ ticks' # ticks /\ i \in Reached(roster)

InRanges(hr, hrv, steadiness, sleep_index, mwi) ==
    /\ hr \in MinHeartRate..MaxHeartRate
    /\ hrv \in MinHrv..MaxHrv
    /\ steadiness \in 0..100
    /\ sleep_index \in 0..100
    /\ mwi \in 0..1000

SnapshotInRanges(member) ==
    InRanges(member.current_heart_rate, member.current_hrv, member.current_steadiness,
             member.current_sleep_index, member.mental_wellness_index)

\* C1: from Staff rows with the model defaults, after any backfill steps and
\* live ticks, every produced DataPoint and every subject snapshot (in the
\* session and as committed) has heart rate in [50,160], HRV in [15,100],
\* steadiness in [0,1], sleep index in [0,10] and wellness index in [0,100].
C1_ValuesInRanges ==
    \A i \in StaffIds :
        /\ SnapshotInRanges(staff[i])
        /\ SnapshotInRanges(db_staff[i])
        /\ Produced(i) =>
              InRanges(last_point[i].heart_rate, last_point[i].hrv,
                       last_point[i].steadiness, last_point[i].sleep_index,
                       last_point[i].mwi)

\* a live tick whose heart rate and HRV both sit on their lower clamp
C1_Witness ==
    \E i \in roster :
        /\ ProducedBy(i, "live")
        /\ tick_result = "ok"
        /\ tick_phase[i].prev_hr = MinHeartRate
        /\ last_point[i].heart_rate = MinHeartRate
        /\ last_point[i].hrv = MinHrv
        /\ staff[i].current_heart_rate = MinHeartRate

LegalTrendEdges ==
    { <<0, 0>>, <<0, 1>>, <<1, -1>>, <<-1, -1>>, <<-1, 0>> }

\* C2: for every subject, each driver step (backfill step or live tick)
\* moves the trend phase only along Stable->Stressing, Stressing->Recovering,
\* Recovering->Stable, or keeps it in Stable or in Recovering; never
\* Stable->Recovering, never Stressing->Stable, never Stressing->Stressing
\* or Recovering->Stressing.
C2_LegalTrendEdges ==
    [][ \A i \in StaffIds :
          (Stepped(i) /\ staff_simulation_state[i].present
                      /\ staff_simulation_state'[i].present)
          => <<staff_simulation_state[i].hr_trend, staff_simulation_state'[i].hr_trend>>
                \in LegalTrendEdges ]_vars

\* a live tick that took a subject from Recovering back to Stable
C2_Witness ==
    \E i \in roster :
        /\ ProducedBy(i, "live")
        /\ tick_phase[i].prev_trend = -1
        /\ tick_phase[i].hr_trend = 0
        /\ staff_simulation_state[i].hr_trend = 0

\* C3: every DataPoint of either driver whose timestamp has an hour of day
\* from 7 to 22 has sleep index exactly 0.0.
C3_DaytimeSleepIndexZero ==
    \A i \in StaffIds :
        (Produced(i) /\ HourOf(last_point[i].timestamp) \in 7..22)
        => last_point[i].sleep_index = 0

RECURSIVE CountEmits(_, _)
CountEmits(log, i) ==
    IF log = <<>> THEN 0
    ELSE (IF Head(log).ev = "emit" /\ Head(log).id = i THEN 1 ELSE 0)
         + CountEmits(Tail(log), i)

\* C4: in a live tick the transport callback is invoked exactly once per
\* roster subject and only after the tick's commit has succeeded; when the
\* commit fails and is rolled back, no snapshot of that tick has been handed
\* to the transport.
C4_EmitAfterCommit ==
    /\ tick_result = "ok" =>
          /\ \A i \in roster : CountEmits(tick_log, i) = 1
          /\ \A k \in 1..Len(tick_log) :
                tick_log[k].ev = "emit" =>
                    \E j \in 1..(k - 1) : tick_log[j] = Ev("commit")
    /\ tick_result = "rolled_back" =>
          \A k \in 1..Len(tick_log) : tick_log[k].ev # "emit"

\* C5: a live tick over a roster with a subject that has no SimulationState
\* entry creates the entry and produces the subject's DataPoint; the tick
\* never fails because an entry is missing.
C5_LazyState ==
    (ticks >= 1 /\ roster # {}) =>
        /\ tick_result # "raised"
        /\ \A i \in roster :
              /\ staff_simulation_state[i].present
              /\ ProducedBy(i, "live")

\* the backfill has run and left its buffer for subject i
Backfilled(i) == pc = "scheduler" /\ staff_simulation_state[i].present

\* C6 as stated: a backfill over a 2-day window with a 5-second step appends
\* exactly 2*24*3600/5 = 34560 DataPoints per roster subject to the buffer.
C6_Original ==
    \A i \in StaffIds :
        Backfilled(i) =>
            data_to_add[i] = (HistoryDays * SecondsPerDay) \div simulation_interval_seconds

\* C6: a backfill over a 2-day window with a 5-second step appends exactly
\* 34561 DataPoints per roster subject to the buffer, one for every step of
\* [start, end] with both ends included; a successful first commit writes
\* that many rows.
C6_PointsPerSubject ==
    \A i \in StaffIds :
        Backfilled(i) =>
            /\ data_to_add[i] =
                  ((HistoryDays * SecondsPerDay) \div simulation_interval_seconds) + 1
            /\ ticks = 0 => wearable_data[i] \in {0, data_to_add[i]}

\* the full backfill has ended and its buffer has been written
C6_Witness ==
    /\ pc = "scheduler"
    /\ roster = StaffIds
    /\ history_window = HistoryDays * SecondsPerDay
    /\ ticks = 0
    /\ \A i \in StaffIds : wearable_data[i] = data_to_add[i] /\ data_to_add[i] > 0

\* subject i takes a step that starts and ends in Stable (no stress event
\* fires), from a heart rate inside [baseline - 5, baseline + 10]
StableStepInBand(i) ==
    /\ Stepped(i)
    /\ staff_simulation_state[i].present
    /\ staff_simulation_state[i].hr_trend = 0
    /\ staff_simulation_state'[i].hr_trend = 0
    /\ staff[i].current_heart_rate >= staff_simulation_state[i].baseline_hr - 5
    /\ staff[i].current_heart_rate <= staff_simulation_state[i].baseline_hr + 10

\* C7 as stated: while a subject stays Stable with no stress event, a heart
\* rate that is inside [baseline - 5, baseline + 10] stays inside it at
\* every following step.
C7_Original ==
    [][ \A i \in StaffIds :
          StableStepInBand(i) =>
             /\ last_point'[i].heart_rate >= staff_simulation_state[i].baseline_hr - 5
             /\ last_point'[i].heart_rate <= staff_simulation_state[i].baseline_hr + 10 ]_vars

\* C7: a step that stays Stable with no stress event, taken from a heart rate
\* inside [baseline - 5, baseline + 10], produces a heart rate inside
\* [baseline - 7, baseline + 12].
C7_StableStepBound ==
    [][ \A i \in StaffIds :
          StableStepInBand(i) =>
             /\ last_point'[i].heart_rate >= staff_simulation_state[i].baseline_hr - 7
             /\ last_point'[i].heart_rate <= staff_simulation_state[i].baseline_hr + 12 ]_vars

\* a Stable live tick from baseline + 10 that ended on baseline + 12
C7_Witness ==
    \E i \in roster :
        /\ ProducedBy(i, "live")
        /\ tick_phase[i].prev_trend = 0
        /\ tick_phase[i].hr_trend = 0
        /\ tick_phase[i].prev_hr = staff_simulation_state[i].baseline_hr + 10
        /\ last_point[i].heart_rate = staff_simulation_state[i].baseline_hr + 12

\* C8: calculate_stress_level(hr, hrv) is Critical iff hr > 120 or hrv < 25,
\* otherwise High iff hr > 100 or hrv < 40, otherwise Normal, for hr in
\* [50,160] and hrv in [15,100]; (100,40) is Normal, (101,40) High,
\* (121,25) Critical and (90,24) Critical.
C8_StressLevel ==
    (probe.fn = "calculate_stress_level" /\ probe.called) =>
        LET critical == probe.hr > 120 \/ probe.hrv < 25
            high == ~critical /\ (probe.hr > 100 \/ probe.hrv < 40)
        IN  /\ probe.result \in {"Critical", "High", "Normal"}
            /\ probe.result = "Critical" <=> critical
            /\ probe.result = "High" <=> high
            /\ probe.result = "Normal" <=> (~critical /\ ~high)
            /\ (probe.hr = 100 /\ probe.hrv = 40) => probe.result = "Normal"
            /\ (probe.hr = 101 /\ probe.hrv = 40) => probe.result = "High"
            /\ (probe.hr = 121 /\ probe.hrv = 25) => probe.result = "Critical"
            /\ (probe.hr = 90 /\ probe.hrv = 24) => probe.result = "Critical"

\* the call on (90, 24): the HRV threshold alone makes it Critical
C8_Witness ==
    /\ probe.fn = "calculate_stress_level"
    /\ probe.called
    /\ probe.hr = 90
    /\ probe.hrv = 24
    /\ probe.result = "Critical"

Clamp(lo, hi, x) == Max(lo, Min(hi, x))

\* C9: calculate_mwi(hr, hrv, steadiness, sleep_hours) is
\* 0.20*clamp(0,100, 100 - 1.5*max(0, hr-60)) + 0.30*clamp(0,100, 2*(hrv-30))
\* + 0.30*clamp(0,100, 100*steadiness) + 0.20*clamp(0,100, 25*(sleep_hours-4)),
\* rounded to one decimal and clamped to [0,100]; mwi(60, 30, 1.0, 8) = 70.0.
\* In tenths of a point, with steadiness in hundredths and sleep hours in
\* tenths, the four terms are integers: 0.20*hr_score is
\* clamp(0,200, 200 - 3*max(0, hr-60)), 0.30*hrv_score is
\* 3*clamp(0,100, 2*(hrv-30)), 0.30*steadiness_score is 3*clamp(0,100, s)
\* and 0.20*sleep_score is clamp(0,200, 5*sleep - 200).
C9_Mwi ==
    (probe.fn = "calculate_mwi" /\ probe.called) =>
        /\ probe.result =
              Clamp(0, 1000,
                    Clamp(0, 200, 200 - (3 * Max(0, probe.hr - 60)))
                    + (3 * Clamp(0, 100, 2 * (probe.hrv - 30)))
                    + (3 * Clamp(0, 100, probe.steadiness))
                    + Clamp(0, 200, (5 * probe.sleep) - 200))
        /\ (probe.hr = 60 /\ probe.hrv = 30 /\ probe.steadiness = 100 /\ probe.sleep = 80)
              => probe.result = 700

\* the call mwi(60, 30, 1.0, 8) with its result 70.0
C9_Witness ==
    /\ probe.fn = "calculate_mwi"
    /\ probe.called
    /\ probe.hr = 60
    /\ probe.hrv = 30
    /\ probe.steadiness = 100
    /\ probe.sleep = 80
    /\ probe.result = 700

\* C10: when a live tick's commit raises, simulate_data catches it, rolls
\* the transaction back and returns (nothing is written), and the trend phase
\* and stress-event probability set during that tick stay in
\* staff_simulation_state: the next tick starts from them.
C10_StateSurvivesRollback ==
    [][ /\ tick_result' = "rolled_back" =>
              /\ Len(tick_log') >= 2
              /\ tick_log'[Len(tick_log') - 1] = Ev("commit_failed")
              /\ tick_log'[Len(tick_log')] = Ev("rollback")
              /\ ticks' # ticks => (db_staff' = db_staff /\ wearable_data' = wearable_data)
              /\ \A i \in roster' :
                    /\ staff_simulation_state'[i].hr_trend = tick_phase'[i].hr_trend
                    /\ staff_simulation_state'[i].stress_event_chance
                          = tick_phase'[i].stress_event_chance
        /\ (tick_result = "rolled_back" /\ ticks' # ticks) =>
              \A i \in roster :
                    tick_phase'[i].prev_trend = tick_phase[i].hr_trend ]_vars

\* a tick whose commit failed after it had started a stress event
C10_Witness ==
    /\ tick_result = "rolled_back"
    /\ \E i \in roster :
          /\ tick_phase[i].prev_trend = 0
          /\ tick_phase[i].hr_trend = 1
          /\ staff_simulation_state[i].hr_trend = 1
          /\ staff_simulation_state[i].stress_event_chance = 0
          /\ staff[i] = db_staff[i]

\* C11: with an empty roster a live tick is a no-op and not an error: it
\* produces no DataPoint, invokes no transport callback, performs no commit
\* or rollback, changes no SimulationState, and returns normally.
C11_EmptyRosterNoop ==
    [][ (ticks' # ticks /\ roster = {}) =>
           /\ tick_result' = "noop"
           /\ tick_log' = <<>>
           /\ last_point' = last_point
           /\ staff_simulation_state' = staff_simulation_state
           /\ last_simulated_day' = last_simulated_day
           /\ staff' = staff
           /\ db_staff' = db_staff
           /\ wearable_data' = wearable_data
           /\ roster' = {} ]_vars

\* a tick has run over the empty roster
C11_Witness ==
    /\ roster = {}
    /\ ticks >= 1
    /\ tick_result = "noop"
    /\ tick_log = <<>>
    /\ \A i \in StaffIds : ~Produced(i) /\ ~staff_simulation_state[i].present

RECURSIVE CountEvents(_, _)
CountEvents(log, names) ==
    IF log = <<>> THEN 0
    ELSE (IF Head(log).ev \in names THEN 1 ELSE 0) + CountEvents(Tail(log), names)

\* the backfill has ended and no live tick has run since
BackfillEnded == pc = "scheduler" /\ ticks = 0 /\ last_simulated_day # 0

NothingStored(i) == wearable_data[i] = 0 /\ db_staff[i] = NewStaff

AllStored(i) ==
    /\ wearable_data[i] = data_to_add[i]
    /\ db_staff[i] = staff[i]
    /\ db_staff[i].last_update = last_point[i].timestamp

\* C12 as stated: the backfill writes the buffered DataPoints and the final
\* snapshots in one single transaction after the loop: exactly one commit
\* for the whole run, none before the loop finishes, and a failure while
\* persisting leaves neither the DataPoints nor the final snapshots stored.
C12_Original ==
    /\ pc = "historical" => \A i \in StaffIds : NothingStored(i)
    /\ BackfillEnded =>
          /\ CountEvents(tick_log, {"commit", "commit_failed"}) = 1
          /\ CountEvents(tick_log, {"commit_failed"}) > 0 =>
                \A i \in StaffIds : NothingStored(i)

\* C12: the backfill writes the buffered DataPoints and the final snapshots
\* together, in the first of two commits made after the loop ends: no commit
\* before the loop finishes; when the first commit fails neither is stored;
\* when it succeeds both are stored, whatever the second commit does.
C12_StoredTogether ==
    /\ pc = "historical" => \A i \in StaffIds : NothingStored(i)
    /\ BackfillEnded =>
          /\ Len(tick_log) >= 2
          /\ tick_log[1] = Ev("bulk_save")
          /\ CountEvents(tick_log, {"commit", "commit_failed"}) \in {1, 2}
          /\ tick_log[2] = Ev("commit_failed") =>
                /\ CountEvents(tick_log, {"commit", "commit_failed"}) = 1
                /\ \A i \in StaffIds : NothingStored(i)
          /\ tick_log[2] = Ev("commit") =>
                /\ CountEvents(tick_log, {"commit", "commit_failed"}) = 2
                /\ \A i \in StaffIds : AllStored(i)
          /\ \A i \in StaffIds : NothingStored(i) \/ AllStored(i)

\* the first commit stored everything and the second one failed
C12_Witness ==
    /\ BackfillEnded
    /\ tick_log = <<Ev("bulk_save"), Ev("commit"), Ev("add_all"),
                    Ev("commit_failed"), Ev("rollback")>>
    /\ \A i \in StaffIds : AllStored(i) /\ wearable_data[i] > 0 /\ db_staff[i] # NewStaff

\* populate_historical_data has been entered (it alone sets the tracked day)
BackfillRan == last_simulated_day # 0

\* the backfill loop has covered every step of [start, end]
BackfillComplete ==
    /\ BackfillRan
    /\ \A i \in StaffIds :
          data_to_add[i] = (history_window \div simulation_interval_seconds) + 1

\* C13 as stated: in every process start the backfill runs exactly once and
\* has completed before the first live tick; no live tick runs before or
\* during the backfill.
C13_Original ==
    /\ pc = "historical" => ticks = 0
    /\ ticks >= 1 => (pc = "scheduler" /\ BackfillComplete)

\* C13: in a process start the backfill runs at most once, and only when
\* init_db has just created the staff and no WearableData exists; otherwise
\* it is skipped.  When it runs it has completed before the first live tick;
\* no live tick runs before or during the backfill.
C13_BackfillBeforeTicks ==
    [][ /\ (pc' = "historical" /\ pc # "historical") =>
              /\ pc = "init_db"
              /\ roster = {}
              /\ \A i \in StaffIds : wearable_data[i] = 0
              /\ ~BackfillRan
              /\ ticks = 0
        /\ pc # "init_db" => pc' # "init_db"
        /\ pc = "scheduler" => pc' = "scheduler"
        /\ (pc = "init_db" /\ pc' = "scheduler") => ~BackfillRan'
        /\ ticks' # ticks =>
              /\ pc = "scheduler"
              /\ BackfillRan => BackfillComplete
              /\ UNCHANGED <<data_to_add, current_time, last_simulated_day>> ]_vars

\* a live tick has run after a completed backfill
C13_Witness ==
    /\ ticks >= 1
    /\ tick_result = "ok"
    /\ BackfillComplete
    /\ \A i \in roster : ProducedBy(i, "live") /\ wearable_data[i] > data_to_add[i]

\* C14: in every reachable state a subject's stress-event probability is 0
\* whenever its trend phase is Stressing or Recovering and 0.05 whenever the
\* phase is Stable.
C14_ChanceFollowsPhase ==
    \A i \in StaffIds :
        staff_simulation_state[i].present =>
            /\ staff_simulation_state[i].hr_trend \in {1, -1} =>
                  staff_simulation_state[i].stress_event_chance = 0
            /\ staff_simulation_state[i].hr_trend = 0 =>
                  staff_simulation_state[i].stress_event_chance = StressEventChance

\* C15: after every step of either driver the snapshot's stress level is
\* calculate_stress_level of the snapshot's heart rate and HRV written by
\* that step.
C15_StressLevelCurrent ==
    \A i \in StaffIds :
        tick_phase[i].stepped =>
            staff[i].stress_level =
                calculate_stress_level(staff[i].current_heart_rate, staff[i].current_hrv)

\* every subject's sleep_index_last_night is redrawn from [5.0, 9.5] and
\* the tracked day becomes day
Regenerated(day) ==
    /\ last_simulated_day' = day
    /\ \A i \in roster' :
          /\ staff_simulation_state'[i].sleep_index_last_night >= 500
          /\ staff_simulation_state'[i].sleep_index_last_night <= 950

NotRegenerated ==
    /\ last_simulated_day' = last_simulated_day
    /\ \A i \in roster :
          staff_simulation_state'[i].sleep_index_last_night
             = staff_simulation_state[i].sleep_index_last_night

\* C16: whenever the calendar day of the step being processed differs from
\* the tracked last-simulated day, every subject's sleep_index_last_night is
\* regenerated in [5.0, 9.5] and the tracked day is updated, in the backfill
\* loop and across live ticks alike; within the same day no step regenerates
\* it.
C16_DailyRegeneration ==
    [][ /\ (pc = "historical" /\ current_time' # current_time) =>
              IF DayOf(current_time) # last_simulated_day
              THEN Regenerated(DayOf(current_time))
              ELSE NotRegenerated
        /\ (ticks' # ticks /\ roster # {} /\ BackfillRan) =>
              IF DayOf(now') # last_simulated_day
              THEN Regenerated(DayOf(now'))
              ELSE NotRegenerated ]_vars

\* C17: every DataPoint of either driver whose timestamp hour is in 0..5
\* has a sleep index within 0.7, plus the rounding to one decimal, of the
\* subject's sleep_index_last_night held in staff_simulation_state at that
\* step, clamped to [0, 10].
C17_DeepSleepNearLastNight ==
    \A i \in StaffIds :
        (Produced(i) /\ staff_simulation_state[i].present
                     /\ HourOf(last_point[i].timestamp) \in 0..5) =>
            LET last_night == staff_simulation_state[i].sleep_index_last_night
                stored == last_point[i].sleep_index * 10
            IN  /\ stored >= Max(0, last_night - 70) - 5
                /\ stored <= Min(1000, last_night + 70) + 5

\* the subject's last step moved it from Stable to Stressing
Fired(i) == tick_phase[i].prev_trend = 0 /\ tick_phase[i].hr_trend = 1

\* C18: in each step the heart rate before pull and clamp is
\* prev + noise + 2*trend_bias (+ impulse when a stress event fires), with
\* noise in [-2,2] and trend_bias +1, -1 or 0 for the phase the step has
\* produced, Stressing, Recovering or Stable; on the step a subject enters
\* Stressing the heart rate so rises by at least 20 (live) or 10 (backfill).
C18_HeartRateFromNewPhase ==
    \A i \in StaffIds :
        tick_phase[i].stepped =>
            LET impulses == IF ~Fired(i) THEN {0}
                            ELSE IF ProducedBy(i, "live") THEN 20..40 ELSE 10..20
            IN  /\ \E noise \in -2..2, impulse \in impulses :
                      tick_phase[i].hr_before_pull =
                          tick_phase[i].prev_hr + noise + (2 * tick_phase[i].hr_trend) + impulse
                /\ Fired(i) =>
                      tick_phase[i].hr_before_pull - tick_phase[i].prev_hr
                          >= (IF ProducedBy(i, "live") THEN 20 ELSE 10)

\* the pull applied by the subject's last step, positive towards the baseline
PullDown(i) == tick_phase[i].hr_before_pull - tick_phase[i].hr_before_clamp
PullUp(i) == tick_phase[i].hr_before_clamp - tick_phase[i].hr_before_pull
AboveBand(i) ==
    tick_phase[i].hr_trend = 0
    /\ tick_phase[i].hr_before_pull > staff_simulation_state[i].baseline_hr + 10
BelowBand(i) ==
    tick_phase[i].hr_trend = 0
    /\ ~AboveBand(i)
    /\ tick_phase[i].hr_before_pull < staff_simulation_state[i].baseline_hr - 5

\* C19 as stated: in a Stable step a new heart rate above baseline+10 is
\* moved down by 1 or 2, one below baseline-5 is moved up by 1 or 2 (never
\* 0), before clamping; otherwise no pull is applied.
C19_Original ==
    \A i \in StaffIds :
        tick_phase[i].stepped =>
            /\ AboveBand(i) => PullDown(i) \in 1..2
            /\ BelowBand(i) => PullUp(i) \in 1..2
            /\ (~AboveBand(i) /\ ~BelowBand(i)) => PullDown(i) = 0

\* C19: in a Stable step a new heart rate above baseline+10 is moved down by
\* 0, 1 or 2, one below baseline-5 is moved up by 0 or 1, before clamping;
\* otherwise, and in every other phase, no pull is applied.
C19_CorrectivePull ==
    \A i \in StaffIds :
        tick_phase[i].stepped =>
            /\ AboveBand(i) => PullDown(i) \in 0..2
            /\ BelowBand(i) => PullUp(i) \in 0..1
            /\ (~AboveBand(i) /\ ~BelowBand(i)) => PullDown(i) = 0
            /\ last_point[i].heart_rate =
                  Max(MinHeartRate, Min(MaxHeartRate, tick_phase[i].hr_before_clamp))

\* a Stable live tick above the band whose pull was 0
C19_Witness ==
    \E i \in roster :
        /\ tick_phase[i].stepped
        /\ ProducedBy(i, "live")
        /\ AboveBand(i)
        /\ PullDown(i) = 0
        /\ last_point[i].heart_rate = tick_phase[i].hr_before_pull

LivePhaseBias(trend) == IF trend = 1 THEN -8..-4 ELSE IF trend = -1 THEN 2..5 ELSE {0}
LiveCorrection(hr) == IF hr > 100 THEN -5..-1 ELSE IF hr < 70 THEN 0..2 ELSE {0}
HistPhaseBias(trend) == IF trend = 1 THEN -5..-2 ELSE IF trend = -1 THEN 1..4 ELSE {0}
HistCorrection(hr) == IF hr > 100 THEN -3..0 ELSE IF hr < 70 THEN 0..1 ELSE {0}

\* the HRV before the clamp is prev + noise + bias + correction
HrvComposed(i, biases, corrections) ==
    \E noise \in -3..3, bias \in biases, correction \in corrections :
        tick_phase[i].hrv_before_clamp = tick_phase[i].prev_hrv + noise + bias + correction

\* C20 as stated: in every step of either driver the HRV before clamping is
\* prev + noise + phase_bias + correction, noise in [-3,3], phase_bias in
\* [-8,-4] when Stressing, [2,5] when Recovering, 0 when Stable, correction
\* in [-5,-1] when the new heart rate is above 100 and [0,2] when below 70;
\* the backfill step uses the same ranges as the live tick.
C20_Original ==
    \A i \in StaffIds :
        tick_phase[i].stepped =>
            HrvComposed(i, LivePhaseBias(tick_phase[i].hr_trend),
                        LiveCorrection(last_point[i].heart_rate))

\* C20: in every step the HRV before clamping is prev + noise + phase_bias
\* + correction with noise in [-3,3]; in a live tick phase_bias is in
\* [-8,-4] when Stressing and [2,5] when Recovering, correction in [-5,-1]
\* above 100 and [0,2] below 70; in a backfill step phase_bias is in [-5,-2]
\* when Stressing and [1,4] when Recovering, correction in [-3,0] above 100
\* and [0,1] below 70.
C20_HrvRanges ==
    \A i \in StaffIds :
        tick_phase[i].stepped =>
            IF ProducedBy(i, "live")
            THEN HrvComposed(i, LivePhaseBias(tick_phase[i].hr_trend),
                             LiveCorrection(last_point[i].heart_rate))
            ELSE HrvComposed(i, HistPhaseBias(tick_phase[i].hr_trend),
                             HistCorrection(last_point[i].heart_rate))

\* a live Recovering tick above 100 whose HRV rose by 7, beyond what the
\* backfill's ranges allow
C20_Witness ==
    \E i \in roster :
        /\ tick_phase[i].stepped
        /\ ProducedBy(i, "live")
        /\ tick_phase[i].hr_trend = -1
        /\ last_point[i].heart_rate > 100
        /\ tick_phase[i].hrv_before_clamp - tick_phase[i].prev_hrv = 7

\* C21: a step of either driver that begins with a subject in Recovering
\* makes the phase Stable and the stress-event probability 0.05 if and only
\* if the heart rate of the subject's snapshot at the start of the step is
\* <= baseline + 5; otherwise the phase stays Recovering and the probability
\* is unchanged.
C21_RecoveryEndsNearBaseline ==
    [][ \A i \in StaffIds :
          (Stepped(i) /\ staff_simulation_state[i].present
                      /\ staff_simulation_state[i].hr_trend = -1)
          => IF staff[i].current_heart_rate <= staff_simulation_state[i].baseline_hr + 5
             THEN /\ staff_simulation_state'[i].hr_trend = 0
                  /\ staff_simulation_state'[i].stress_event_chance = StressEventChance
             ELSE /\ staff_simulation_state'[i].hr_trend = -1
                  /\ staff_simulation_state'[i].stress_event_chance =
                        staff_simulation_state[i].stress_event_chance ]_vars

\* a backfill step that began in Recovering with the heart rate exactly at
\* baseline + 5 and ended in Stable
C21_Witness ==
    \E i \in roster :
        /\ tick_phase[i].stepped
        /\ ProducedBy(i, "hist")
        /\ tick_phase[i].prev_trend = -1
        /\ tick_phase[i].prev_hr = staff_simulation_state[i].baseline_hr + 5
        /\ tick_phase[i].hr_trend = 0
        /\ staff_simulation_state[i].stress_event_chance = StressEventChance

\* C22: a subject is in Stressing for exactly one step: every step of
\* either driver that begins with the subject in Stressing ends with it in
\* Recovering, whatever the heart rate, the HRV and the random draws.
C22_StressingLastsOneStep ==
    [][ \A i \in StaffIds :
          (Stepped(i) /\ staff_simulation_state[i].present
                      /\ staff_simulation_state[i].hr_trend = 1)
          => staff_simulation_state'[i].hr_trend = -1 ]_vars

\* a backfill step that began in Stressing with the heart rate still within
\* 5 of the baseline and ended in Recovering
C22_Witness ==
    \E i \in roster :
        /\ tick_phase[i].stepped
        /\ ProducedBy(i, "hist")
        /\ tick_phase[i].prev_trend = 1
        /\ tick_phase[i].prev_hr <= staff_simulation_state[i].baseline_hr + 5
        /\ tick_phase[i].hr_trend = -1
        /\ staff_simulation_state[i].hr_trend = -1

\* C23: every DataPoint produced by a live tick carries the step count
\* drawn for that subject in that tick, an integer in [0,10]; a DataPoint
\* produced by the backfill carries no step count (its steps column holds
\* nothing but the column default).
C23_StepCountStored ==
    \A i \in StaffIds :
        /\ (tick_phase[i].stepped /\ ProducedBy(i, "live")) =>
              /\ tick_phase[i].current_steps \in 0..10
              /\ last_point[i].steps = tick_phase[i].current_steps
        /\ ProducedBy(i, "hist") => last_point[i].steps = DefaultSteps

\* the number of timestamps start + k*s, k = 0, 1, 2, ..., that are <= end
StepsOfWindow == (history_window \div simulation_interval_seconds) + 1

\* C24: a backfill from start to end with step s produces, for each roster
\* subject, exactly one DataPoint at each timestamp start + k*s <= end
\* (k = 0, 1, 2, ...), the one at start and, when end - start is a multiple
\* of s, the one at end included, in strictly increasing timestamp order,
\* and none at any other timestamp: the iteration that finds k DataPoints
\* in the subject's buffer adds one, stamped start + k*s <= end, and the
\* loop ends with one DataPoint for every such k.
C24_OnePointPerStep ==
    [][ \A i \in StaffIds :
          /\ (pc = "historical" /\ current_time' # current_time) =>
                /\ i \in roster
                /\ data_to_add'[i] = data_to_add[i] + 1
                /\ last_point'[i].driver = "hist"
                /\ last_point'[i].timestamp =
                      (now - history_window) + (data_to_add[i] * simulation_interval_seconds)
                /\ last_point'[i].timestamp <= now
                /\ data_to_add[i] > 0 => last_point'[i].timestamp > last_point[i].timestamp
          /\ (pc = "historical" /\ pc' = "scheduler") =>
                /\ data_to_add[i] = StepsOfWindow
                /\ data_to_add'[i] = data_to_add[i]
                /\ history_window % simulation_interval_seconds = 0 =>
                      last_point[i].timestamp = now ]_vars

\* the two-day backfill has ended: the last DataPoint of every subject is
\* the one at end, and it is the 34561st
C24_Witness ==
    /\ pc = "scheduler"
    /\ ticks = 0
    /\ history_window = HistoryDays * SecondsPerDay
    /\ \A i \in StaffIds :
          /\ i \in roster
          /\ ProducedBy(i, "hist")
          /\ last_point[i].timestamp = now
          /\ data_to_add[i] = StepsOfWindow

Recovering(i) ==
    staff_simulation_state[i].present /\ staff_simulation_state[i].hr_trend = -1
BackInStable(i) ==
    staff_simulation_state[i].present /\ staff_simulation_state[i].hr_trend = 0

\* the last step of subject i began and ended in Recovering
StayedRecovering(i) ==
    tick_phase[i].stepped /\ tick_phase[i].prev_trend = -1 /\ tick_phase[i].hr_trend = -1

\* the noise drawn in the last step of subject i, which fired no stress
\* event, was below +2
NoiseBelowTwo(i) ==
    /\ tick_phase[i].stepped
    /\ ~Fired(i)
    /\ tick_phase[i].hr_before_pull - tick_phase[i].prev_hr - (2 * tick_phase[i].prev_trend) < 2

\* on a step that begins and ends in Recovering the heart rate does not rise
NoRiseInRecovery ==
    \A i \in StaffIds :
        StayedRecovering(i) => last_point[i].heart_rate <= tick_phase[i].prev_hr

LiveTick(i) == pc = "scheduler" /\ ticks' # ticks /\ i \in Reached(roster)

\* the hours the live tick treats as day
Daytime(t) == HourOf(t) \in 8..21

SleepIndexZeroed(i) ==
    /\ last_point'[i].sleep_index = 0
    /\ staff'[i].current_sleep_index = 0

Baselines(state) ==
    <<state.baseline_hr, state.baseline_hrv, state.base_steadiness, state.sleep_hours>>

\* C27: baselines are frozen: no live tick, no backfill step and no repeated
\* call of initialize_simulation_state changes the baseline heart rate, the
\* baseline HRV, the base steadiness or the nightly sleep hours of a subject
\* that already has a SimulationState entry, and none removes the entry.
C27_BaselinesFrozen ==
    [][ \A i \in StaffIds :
          staff_simulation_state[i].present =>
             /\ staff_simulation_state'[i].present
             /\ Baselines(staff_simulation_state'[i]) = Baselines(staff_simulation_state[i]) ]_vars

\* a repeated call of initialize_simulation_state on a new day, after a live
\* tick, drew a new sleep index of last night and kept the baselines
C27_Witness ==
    /\ probe.fn = "initialize_simulation_state"
    /\ ticks > 0
    /\ \E i \in roster :
          /\ probe.before[i].present
          /\ probe.before[i].sleep_index_last_night
                # staff_simulation_state[i].sleep_index_last_night
          /\ Baselines(probe.before[i]) = Baselines(staff_simulation_state[i])
          /\ tick_phase[i].stepped
          /\ ProducedBy(i, "live")

====
